---- MODULE Spec2Model ----
(***************************************************************************)
(* Model of hackernews-mcp: the comment-tree builder of                    *)
(* parse_hn_comments.py (build_nested_structure, parse_hn_comments), the   *)
(* compact renderer of server.py, and the request orchestration of cli.py  *)
(* (get_hn_content, main) and server.py (handle_call_tool) on top of       *)
(* firecrawl.py (scrape_url, get_markdown).                                *)
(*                                                                         *)
(* Spec     : parse_hn_comments run on one thread document, one loop       *)
(*            iteration of build_nested_structure per step.                *)
(* SpecReq  : one request through the CLI or the tool-invocation surface.  *)
(***************************************************************************)
EXTENDS Integers, Sequences, FiniteSets, TLC

\* ------------------------------------------------------------------ bounds
MaxRecords == 4          \* comment rows in a thread document (Spec)
MaxDepth == 3            \* largest indent level a row's marker encodes
ReqMaxRows == 2          \* comment rows in a thread document (SpecReq)
ReqUrlLen == 2           \* tokens in the hn_url argument (SpecReq)
MaxUrlLen == 3           \* tokens in the argument of extract_item_id (SpecId)

\* ------------------------------------------------------- program constants
IndentUnit == 40         \* indent_level = width // 40

VARIABLES
    \* --- parse_hn_comments / build_nested_structure
    rows,            \* comment_rows: the indent-marker width of each row, in document order
    pos,             \* index of the next row the for loop takes
    nodes,           \* the comment dicts created so far, by row index: [indent_level, replies]
    all_comments,    \* all_comments: row indices of the top-level list
    comment_stack,   \* comment_stack: row indices of the open ancestors
    total_comments,  \* result['total_comments'] once parse_hn_comments returned, else -1
    bpc,             \* "loop" | "done"
    \* --- one request (cli.main / handle_call_tool)
    surface,         \* "cli" | "server" ("none" outside SpecReq)
    tool_name,       \* server: the name argument of handle_call_tool
    arguments_ok,    \* server: whether arguments holds the key hn_url
    hn_url,          \* the hn_url argument, a sequence of string chunks
    key_present,     \* whether an API key is available (argument or environment)
    pc,              \* position of the request
    item_id,         \* the extracted item id
    thread_doc,      \* <<document>> the thread fetch answered with, <<>> before
    hn_data,         \* <<value>> parse_hn_comments returned, <<>> before
    scrape_data,     \* <<value>> scrape_url returned, <<>> before
    article_content, \* server: <<article_content>> once set to something other than ""
    result,          \* <<value>> get_hn_content / handle_call_tool returned, <<>> before
    raised,          \* the exception that is propagating, or "none"
    article_exc,     \* the exception the article call raised in this request, or "none"
    exit_code,       \* process exit code of cli.main, or -1
    thread_fetches,  \* number of requests.get issued for the thread
    scrape_calls,    \* number of calls of scrape_url
    http_posts       \* number of requests.post issued by scrape_url

bvars == <<rows, pos, nodes, all_comments, comment_stack, total_comments, bpc>>
rvars == <<surface, tool_name, arguments_ok, hn_url, key_present, pc, item_id,
           thread_doc, hn_data, scrape_data, article_content, result, raised,
           article_exc, exit_code, thread_fetches, scrape_calls, http_posts>>
vars == <<rows, pos, nodes, all_comments, comment_stack, total_comments, bpc,
          surface, tool_name, arguments_ok, hn_url, key_present, pc, item_id,
          thread_doc, hn_data, scrape_data, article_content, result, raised,
          article_exc, exit_code, thread_fetches, scrape_calls, http_posts>>

Min(a, b) == IF a < b THEN a ELSE b

\* all sequences over S of length at most n
RECURSIVE SeqsUpTo(_, _)
SeqsUpTo(S, n) ==
    IF n = 0 THEN {<<>>}
    ELSE LET shorter == SeqsUpTo(S, n - 1)
         IN  shorter \cup {Append(s, x) : s \in {t \in shorter : Len(t) = n - 1}, x \in S}

Widths == {IndentUnit * d : d \in 0..MaxDepth}

\* =====================================================================
\* build_nested_structure
\* =====================================================================

\* indent_level = int(indent_img.get('width', 0)) // 40
IndentLevel(width) == width \div IndentUnit

\* comment_stack = comment_stack[:indent_level]
TruncateStackOffByOne(stack, indent_level) ==
    SubSeq(stack, 1, Min(indent_level + 1, Len(stack)))

TruncateStackBelow(stack, indent_level) ==
    SubSeq(stack, 1, Min(indent_level - 1, Len(stack)))

TruncateStack(stack, indent_level) ==
    SubSeq(stack, 1, Min(indent_level, Len(stack)))

\* the comment dict a row is turned into; replies starts empty
NewComment(indent_level) == [indent_level |-> indent_level, replies |-> <<>>]

\* all_comments.append(comment); comment_stack = [comment]
AddTopLevel(st, id) ==
    [st EXCEPT !.all_comments = Append(@, id),
               !.comment_stack = <<id>>]

\* if comment_stack: parent = comment_stack[-1]; parent['replies'].append(comment);
\* comment_stack.append(comment)   -- and nothing at all when the stack is empty
AddReplyPrepend(st, id) ==
    IF st.comment_stack # <<>>
    THEN LET parent == st.comment_stack[Len(st.comment_stack)]
         IN  [st EXCEPT !.nodes[parent].replies = <<id>> \o @,
                        !.comment_stack = Append(@, id)]
    ELSE st

AddReplyOrphanAsRoot(st, id) ==
    IF st.comment_stack # <<>>
    THEN LET parent == st.comment_stack[Len(st.comment_stack)]
         IN  [st EXCEPT !.nodes[parent].replies = Append(@, id),
                        !.comment_stack = Append(@, id)]
    ELSE [st EXCEPT !.all_comments = Append(@, id),
                    !.comment_stack = <<id>>]

AddReplyAlsoRoot(st, id) ==
    IF st.comment_stack # <<>>
    THEN LET parent == st.comment_stack[Len(st.comment_stack)]
         IN  [st EXCEPT !.nodes[parent].replies = Append(@, id),
                        !.all_comments = Append(@, id),
                        !.comment_stack = Append(@, id)]
    ELSE st

AddReply(st, id) ==
    IF st.comment_stack # <<>>
    THEN LET parent == st.comment_stack[Len(st.comment_stack)]
         IN  [st EXCEPT !.nodes[parent].replies = Append(@, id),
                        !.comment_stack = Append(@, id)]
    ELSE st

\* one iteration of the for loop over comment_rows, for the row with index id
BuildStep(st, id, width) ==
    LET indent_level == IndentLevel(width)
        created == [nodes |-> [i \in DOMAIN st.nodes \cup {id} |->
                                  IF i = id THEN NewComment(indent_level) ELSE st.nodes[i]],
                    all_comments |-> st.all_comments,
                    comment_stack |-> TruncateStack(st.comment_stack, indent_level)]
    IN  IF indent_level = 0 THEN AddTopLevel(created, id) ELSE AddReply(created, id)

\* all_comments = []; comment_stack = []
BuildInit == [nodes |-> <<>>, all_comments |-> <<>>, comment_stack |-> <<>>]

\* the whole loop, over the rows from index i on
RECURSIVE BuildFrom(_, _, _)
BuildFrom(st, rws, i) ==
    IF i > Len(rws) THEN st ELSE BuildFrom(BuildStep(st, i, rws[i]), rws, i + 1)

\* build_nested_structure(comment_rows, soup); extract_comments returns its value
BuildNestedStructure(rws) == BuildFrom(BuildInit, rws, 1)

\* 'total_comments': len(comments)
TotalComments(comments) == Len(comments)

\* ---------------------------------------------------------------- helpers on the forest
Range(s) == {s[i] : i \in DOMAIN s}

\* the comments that are an entry of some replies list
Children(nds) == UNION {Range(nds[i].replies) : i \in DOMAIN nds}

\* the comments reachable from the top-level list
RECURSIVE Reach(_, _)
Reach(nds, frontier) ==
    LET next == frontier \cup UNION {Range(nds[i].replies) : i \in frontier}
    IN  IF next = frontier THEN frontier ELSE Reach(nds, next)

InForest(nds, roots) == Reach(nds, Range(roots))

\* the parents of a comment: the comments whose replies hold it
Parents(nds, id) == {p \in DOMAIN nds : id \in Range(nds[p].replies)}

\* number of ancestors of a comment of the forest
RECURSIVE Level(_, _, _)
Level(nds, roots, id) ==
    IF id \in Range(roots) \/ Parents(nds, id) = {} THEN 0
    ELSE 1 + Level(nds, roots, CHOOSE p \in Parents(nds, id) : TRUE)

\* =====================================================================
\* Spec: parse_hn_comments on one document
\* =====================================================================
ReqIdle ==
    /\ surface = "none" /\ tool_name = "none" /\ arguments_ok = FALSE
    /\ hn_url = <<>> /\ key_present = FALSE /\ pc = "idle"
    /\ item_id = <<>> /\ thread_doc = <<>> /\ hn_data = <<>> /\ scrape_data = <<>>
    /\ article_content = <<>> /\ result = <<>>
    /\ raised = "none" /\ article_exc = "none" /\ exit_code = -1
    /\ thread_fetches = 0 /\ scrape_calls = 0 /\ http_posts = 0

BuildIdle ==
    /\ rows = <<>> /\ pos = 1 /\ nodes = <<>> /\ all_comments = <<>>
    /\ comment_stack = <<>> /\ total_comments = -1 /\ bpc = "idle"

Init ==
    /\ rows \in SeqsUpTo(Widths, MaxRecords)
    /\ pos = 1
    /\ nodes = <<>>
    /\ all_comments = <<>>
    /\ comment_stack = <<>>
    /\ total_comments = -1
    /\ bpc = "loop"
    /\ ReqIdle

\* one iteration of the loop of build_nested_structure
ProcessRow ==
    /\ bpc = "loop"
    /\ pos <= Len(rows)
    /\ LET st == BuildStep([nodes |-> nodes, all_comments |-> all_comments,
                            comment_stack |-> comment_stack], pos, rows[pos])
       IN  /\ nodes' = st.nodes
           /\ all_comments' = st.all_comments
           /\ comment_stack' = st.comment_stack
    /\ pos' = pos + 1
    /\ UNCHANGED <<rows, total_comments, bpc>>
    /\ UNCHANGED rvars

\* the loop is over: build_nested_structure, extract_comments and parse_hn_comments return
ParseReturn ==
    /\ bpc = "loop"
    /\ pos > Len(rows)
    /\ total_comments' = TotalComments(all_comments)
    /\ bpc' = "done"
    /\ UNCHANGED <<rows, pos, nodes, all_comments, comment_stack>>
    /\ UNCHANGED rvars

Next == ProcessRow \/ ParseReturn

Spec == Init /\ [][Next]_vars

\* =====================================================================
\* Properties of the tree builder (checked under Spec)
\* =====================================================================
Forest == InForest(nodes, all_comments)

SourceDepth(id) == IndentLevel(rows[id])

\* the depths start at 0 and never grow by more than one from a row to the next
ValidDepths(rws) ==
    /\ rws # <<>> => IndentLevel(rws[1]) = 0
    /\ \A i \in 2..Len(rws) : IndentLevel(rws[i]) <= IndentLevel(rws[i - 1]) + 1

\* C1: when parse_hn_comments has returned, total_comments equals the number of
\* comment nodes of the returned forest, roots and nested replies together.
C1_TotalCountsAllNodes ==
    bpc = "done" => total_comments = Cardinality(Forest)

\* C2: in the forest, for every input (depth jumps included), every root has
\* indent_level 0 and every other node has its parent's indent_level + 1.
C2_DepthIsParentPlusOne ==
    \A id \in Forest :
        /\ id \in Range(all_comments) => nodes[id].indent_level = 0
        /\ \A p \in Parents(nodes, id) :
               nodes[id].indent_level = nodes[p].indent_level + 1

\* C3: when the first depth is 0 and no depth exceeds the previous depth + 1,
\* every node of the forest has as many ancestors as its source record's depth.
C3_LevelEqualsSourceDepth ==
    ValidDepths(rows) =>
        \A id \in Forest : Level(nodes, all_comments, id) = SourceDepth(id)

C3_Witness ==
    /\ bpc = "done"
    /\ ValidDepths(rows)
    /\ Forest = 1..Len(rows)
    /\ \E i, j \in Forest :
          /\ i < j
          /\ SourceDepth(i) = 2 /\ Level(nodes, all_comments, i) = 2
          /\ SourceDepth(j) = 1 /\ Level(nodes, all_comments, j) = 1

\* the top-level list and every replies list
SiblingLists == {all_comments} \cup {nodes[i].replies : i \in DOMAIN nodes}

\* C4: in the top-level list and in every replies list, siblings stand in the
\* order of their records in the input (a record's id is its input index).
C4_SiblingsInInputOrder ==
    \A l \in SiblingLists :
        \A p, q \in DOMAIN l : p < q => l[p] < l[q]

C4_Witness ==
    /\ bpc = "done"
    /\ Len(all_comments) >= 2
    /\ \E i \in Forest : Len(nodes[i].replies) >= 2

\* the loop is about to take a record with depth > 0 and no open ancestor
OrphanNext ==
    /\ bpc = "loop"
    /\ pos <= Len(rows)
    /\ SourceDepth(pos) > 0
    /\ TruncateStack(comment_stack, SourceDepth(pos)) = <<>>

\* C5: a record with depth > 0 processed while the truncated stack is empty is
\* dropped: the top-level list and every replies list stay as they were, the
\* record is in no replies list and not on the stack, and the loop goes on
\* with the next record.
C5_OrphanIsDropped ==
    [][OrphanNext =>
          /\ all_comments' = all_comments
          /\ \A i \in DOMAIN nodes : nodes'[i].replies = nodes[i].replies
          /\ pos \notin Children(nodes')
          /\ pos \notin Range(all_comments')
          /\ comment_stack' = <<>>
          /\ bpc' = "loop"
          /\ pos' = pos + 1]_vars

C5_Witness ==
    /\ pos >= 3
    /\ SourceDepth(1) > 0
    /\ 1 \notin Forest
    /\ 1 \notin Children(nodes)
    /\ all_comments # <<>>

\* =====================================================================
\* Strings, as sequences of chunks
\* =====================================================================
Marker == "item?id="
Digits == {"7"}
Blanks == {" "}
UrlTokens == {Marker, "&", "7", "x", " "}

\* sub in s, for a one-chunk sub
Contains(s, t) == \E i \in DOMAIN s : s[i] = t

\* index of the first chunk equal to t, 0 when there is none
IndexOf(s, t) ==
    IF Contains(s, t) THEN CHOOSE i \in DOMAIN s : s[i] = t /\ \A j \in 1..(i - 1) : s[j] # t
    ELSE 0

\* str.split(t): the pieces between the occurrences of t
RECURSIVE Split(_, _)
Split(s, t) ==
    LET k == IndexOf(s, t)
    IN  IF k = 0 THEN <<s>>
        ELSE <<SubSeq(s, 1, k - 1)>> \o Split(SubSeq(s, k + 1, Len(s)), t)

\* str.strip(): without leading and trailing whitespace
RECURSIVE Strip(_)
Strip(s) ==
    IF s = <<>> THEN s
    ELSE IF s[1] \in Blanks THEN Strip(Tail(s))
    ELSE IF s[Len(s)] \in Blanks THEN Strip(SubSeq(s, 1, Len(s) - 1))
    ELSE s

\* str.isdigit(): at least one character and all of them digits
IsDigit(s) == s # <<>> /\ \A i \in DOMAIN s : s[i] \in Digits

\* str.startswith(prefix)
StartsWith(s, prefix) ==
    Len(s) >= Len(prefix) /\ SubSeq(s, 1, Len(prefix)) = prefix

\* an extraction that keeps the query parameters after the id
ExtractItemIdKeepQuery(url) ==
    IF Contains(url, Marker) THEN Split(url, Marker)[2] ELSE url

\* server.extract_item_id
ExtractItemId(url) ==
    IF Contains(url, Marker) THEN Split(Split(url, Marker)[2], "&")[1] ELSE url

\* cli.get_hn_content, the extraction of item_id
CliItemId(url) ==
    IF Contains(url, Marker) THEN Split(Split(url, Marker)[2], "&")[1] ELSE Strip(url)

\* =====================================================================
\* The thread document and parse_hn_comments as a function of it
\* =====================================================================
HNPrefix == <<"https://", "news.ycombinator.com">>

\* the href of the title link, as extract_story_info returns it
StoryUrls ==
    { <<>>,                                                   \* no link / text post
      <<"https://", "news.ycombinator.com", "/item?id=7">>,   \* absolute link into the forum
      <<"item?id=7">>,                                        \* relative link: the forum's own item page
      <<"http://", "news.ycombinator.com", "/item?id=7">>,    \* the forum over plain http
      <<"https://", "example.com", "/post">> }                \* external article

Schemes == {"https://", "http://"}

\* the host a story URL resolves to, seen from the item page it was found on
HostOf(url) ==
    IF url # <<>> /\ url[1] \in Schemes THEN url[2] ELSE HNPrefix[2]

PointsIntoForum(url) == url # <<>> /\ HostOf(url) = HNPrefix[2]

ThreadDocs == [rows : SeqsUpTo(Widths, ReqMaxRows), url : StoryUrls]

\* parse_hn_comments, after the document has been fetched
ParseHnComments(doc) ==
    LET st == BuildNestedStructure(doc.rows)
    IN  [story |-> [url |-> doc.url],
         nodes |-> st.nodes,
         comments |-> st.all_comments,
         total_comments |-> TotalComments(st.all_comments)]

\* =====================================================================
\* Compact rendering (server.format_comment_llm, format_hn_discussion)
\* =====================================================================
Line(indent, kind, id, url) == [indent |-> indent, kind |-> kind, id |-> id, url |-> url]

\* a renderer that takes the first reply level for top level
CommentTypeFromTwo(indent) == IF indent > 1 THEN "REPLY" ELSE "COMMENT"

\* comment_type = "REPLY" if indent > 0 else "COMMENT"
CommentType(indent) == IF indent > 0 THEN "REPLY" ELSE "COMMENT"

RECURSIVE FormatCommentLlm(_, _, _), FormatReplies(_, _, _)
\* format_comment_llm(comment, indent): header, text, a blank line for a
\* top-level comment with replies, then the replies one level deeper
FormatCommentLlm(nds, id, indent) ==
    <<Line(indent, CommentType(indent), id, <<>>), Line(indent, "text", id, <<>>)>>
    \o (IF indent = 0 /\ nds[id].replies # <<>> THEN <<Line(0, "blank", 0, <<>>)>> ELSE <<>>)
    \o FormatReplies(nds, nds[id].replies, indent + 1)

FormatReplies(nds, replies, indent) ==
    IF replies = <<>> THEN <<>>
    ELSE FormatCommentLlm(nds, Head(replies), indent) \o FormatReplies(nds, Tail(replies), indent)

RECURSIVE FormatTopLevel(_, _, _)
\* for i, comment in enumerate(result['comments'], 1): "COMMENT #i", the comment, ""
FormatTopLevel(nds, comments, i) ==
    IF i > Len(comments) THEN <<>>
    ELSE <<Line(0, "COMMENT #", i, <<>>)>> \o FormatCommentLlm(nds, comments[i], 0)
         \o <<Line(0, "blank", 0, <<>>)>> \o FormatTopLevel(nds, comments, i + 1)

\* format_hn_discussion(result)
FormatHnDiscussion(res) ==
    <<Line(0, "STORY", 0, <<>>), Line(0, "URL", 0, res.story.url),
      Line(0, "AUTHOR|POINTS|TIME", 0, <<>>),
      Line(0, "TOTAL_COMMENTS", res.total_comments, <<>>), Line(0, "blank", 0, <<>>)>>
    \o FormatTopLevel(res.nodes, res.comments, 1)

\* =====================================================================
\* firecrawl.py
\* =====================================================================
\* class FirecrawlError and its subclasses
FirecrawlErrors ==
    {"FirecrawlAPIKeyError", "FirecrawlConnectionError", "FirecrawlResponseError"}

IsFirecrawlError(e) == e \in FirecrawlErrors

\* what requests.post / raise_for_status / response.json can do to scrape_url
Transports == {"timeout", "connection_error", "http_error", "request_exception",
               "not_json", "json"}

\* the exception scrape_url turns a transport failure into
ScrapeError(transport) ==
    CASE transport = "timeout" -> "FirecrawlConnectionError"
      [] transport = "connection_error" -> "FirecrawlConnectionError"
      [] transport = "request_exception" -> "FirecrawlConnectionError"
      [] transport = "http_error" -> "FirecrawlResponseError"
      [] transport = "not_json" -> "FirecrawlResponseError"

\* decoded JSON bodies of a 2xx answer: top is the type of the document,
\* data the type of its data member ("absent" when it has none), markdown
\* whether data has the key markdown, value what that member holds
JsonBodies ==
    { [top |-> "null",   data |-> "absent", markdown |-> FALSE, value |-> "absent"],  \* null
      [top |-> "object", data |-> "absent", markdown |-> FALSE, value |-> "absent"],  \* {"success": false}
      [top |-> "object", data |-> "null",   markdown |-> FALSE, value |-> "absent"],  \* {"data": null}
      [top |-> "object", data |-> "object", markdown |-> FALSE, value |-> "absent"],  \* {"data": {"html": ..}}
      [top |-> "object", data |-> "object", markdown |-> TRUE,  value |-> "text"],    \* {"data": {"markdown": "# .."}}
      [top |-> "object", data |-> "object", markdown |-> TRUE,  value |-> "null"] }   \* {"data": {"markdown": null}}

\* get_markdown(data): data['data']['markdown'] as it is, or the exception the
\* function ends with; the in operator on None raises TypeError
GetMarkdown(data) ==
    IF data.top # "object" THEN [ok |-> FALSE, exc |-> "TypeError", value |-> "absent"]
    ELSE IF data.data = "absent"
    THEN [ok |-> FALSE, exc |-> "FirecrawlResponseError", value |-> "absent"]
    ELSE IF data.data # "object" THEN [ok |-> FALSE, exc |-> "TypeError", value |-> "absent"]
    ELSE IF ~data.markdown
    THEN [ok |-> FALSE, exc |-> "FirecrawlResponseError", value |-> "absent"]
    ELSE [ok |-> TRUE, exc |-> "none", value |-> data.value]

\* a decoded JSON value as a Python value: null is None
PyValue(v) == IF v = "null" THEN <<>> ELSE <<v>>

\* =====================================================================
\* cli.get_hn_content: the dictionaries it returns
\* =====================================================================
\* return {... 'url_content': None, 'story_url': None, 'error': 'No URL found ...'}
SkippedNoUrl(data) ==
    [hn_comments |-> data, url_content |-> <<>>, story_url |-> <<>>,
     error |-> <<[reason |-> "no_url", exc |-> "none"]>>]

\* return {... 'url_content': None, 'story_url': story_url, 'error': 'Story links to HN itself ...'}
SkippedInternal(data, story_url) ==
    [hn_comments |-> data, url_content |-> <<>>, story_url |-> <<story_url>>,
     error |-> <<[reason |-> "hn_internal", exc |-> "none"]>>]

\* except FirecrawlError as e: return {... 'url_content': None, 'error': f'Failed to fetch URL content: {e}'}
FailedResultNoComments(data, story_url, e) ==
    [hn_comments |-> [data EXCEPT !.comments = <<>>, !.total_comments = 0],
     url_content |-> <<>>, story_url |-> <<story_url>>,
     error |-> <<[reason |-> "failed", exc |-> e]>>]

FailedResult(data, story_url, e) ==
    [hn_comments |-> data, url_content |-> <<>>, story_url |-> <<story_url>>,
     error |-> <<[reason |-> "failed", exc |-> e]>>]

\* return {'hn_comments': hn_data, 'url_content': url_content, 'story_url': story_url}
SuccessResult(data, story_url, url_content) ==
    [hn_comments |-> data, url_content |-> url_content, story_url |-> <<story_url>>,
     error |-> <<>>]

\* =====================================================================
\* server.handle_call_tool: the text it returns
\* =====================================================================
\* article_content: the markdown or one of the bracketed notices
ArticleText(kind, e) == [kind |-> kind, exc |-> e]

\* "# ARTICLE CONTENT ... --- # HACKER NEWS DISCUSSION ..."
SectionsText(article, discussion) ==
    [form |-> "sections", article_content |-> article, hn_discussion |-> discussion,
     exc |-> "none"]

\* except Exception as e: "Error: {e}"
ErrorText(e) ==
    [form |-> "error", article_content |-> ArticleText("none", "none"),
     hn_discussion |-> <<>>, exc |-> e]

\* =====================================================================
\* SpecReq: one request
\* =====================================================================
InitReq ==
    /\ BuildIdle
    /\ surface \in {"cli", "server"}
    /\ tool_name \in {"get_hn_content", "other_tool"}
    /\ arguments_ok \in BOOLEAN
    /\ surface = "cli" => tool_name = "get_hn_content" /\ arguments_ok
    /\ hn_url \in SeqsUpTo(UrlTokens, ReqUrlLen)
    /\ ~arguments_ok => hn_url = <<>>
    /\ key_present \in BOOLEAN
    /\ pc = "start"
    /\ item_id = <<>> /\ thread_doc = <<>> /\ hn_data = <<>> /\ scrape_data = <<>>
    /\ article_content = <<>> /\ result = <<>>
    /\ raised = "none" /\ article_exc = "none" /\ exit_code = -1
    /\ thread_fetches = 0 /\ scrape_calls = 0 /\ http_posts = 0

\* get_hn_content: extract and validate the item id (cli.py 27-35)
CliExtractId ==
    /\ pc = "start" /\ surface = "cli"
    /\ item_id' = CliItemId(hn_url)
    /\ IF IsDigit(CliItemId(hn_url))
       THEN pc' = "fetch_thread" /\ raised' = raised
       ELSE pc' = "cli_main_except" /\ raised' = "ValueError"
    /\ UNCHANGED <<surface, tool_name, arguments_ok, hn_url, key_present, thread_doc,
                   hn_data, scrape_data, article_content, result, article_exc, exit_code,
                   thread_fetches, scrape_calls, http_posts>>
    /\ UNCHANGED bvars

\* handle_call_tool: the two checks before the try block (server.py 106-112)
ServerValidate ==
    /\ pc = "start" /\ surface = "server"
    /\ IF tool_name # "get_hn_content" \/ ~arguments_ok
       THEN pc' = "done" /\ raised' = "ValueError"
       ELSE pc' = "srv_extract" /\ raised' = raised
    /\ UNCHANGED <<surface, tool_name, arguments_ok, hn_url, key_present, item_id,
                   thread_doc, hn_data, scrape_data, article_content, result, article_exc,
                   exit_code, thread_fetches, scrape_calls, http_posts>>
    /\ UNCHANGED bvars

\* handle_call_tool: item_id = extract_item_id(hn_url) (server.py 116)
ServerExtractId ==
    /\ pc = "srv_extract"
    /\ item_id' = ExtractItemId(hn_url)
    /\ pc' = "fetch_thread"
    /\ UNCHANGED <<surface, tool_name, arguments_ok, hn_url, key_present, thread_doc,
                   hn_data, scrape_data, article_content, result, raised, article_exc,
                   exit_code, thread_fetches, scrape_calls, http_posts>>
    /\ UNCHANGED bvars

\* parse_hn_comments(item_id): requests.get(url) is issued; it carries no timeout
ThreadFetchIssue ==
    /\ pc = "fetch_thread"
    /\ thread_fetches' = thread_fetches + 1
    /\ pc' = "await_thread"
    /\ UNCHANGED <<surface, tool_name, arguments_ok, hn_url, key_present, item_id,
                   thread_doc, hn_data, scrape_data, article_content, result, raised,
                   article_exc, exit_code, scrape_calls, http_posts>>
    /\ UNCHANGED bvars

\* parse_hn_comments(item_id): requests.get answers, the document is parsed
ThreadFetchOk ==
    /\ pc = "await_thread"
    /\ \E doc \in ThreadDocs :
          /\ thread_doc' = <<doc>>
          /\ hn_data' = <<ParseHnComments(doc)>>
    /\ pc' = "decide"
    /\ UNCHANGED <<surface, tool_name, arguments_ok, hn_url, key_present, item_id,
                   scrape_data, article_content, result, raised, article_exc, exit_code,
                   thread_fetches, scrape_calls, http_posts>>
    /\ UNCHANGED bvars

\* where an exception of parse_hn_comments goes: get_hn_content has no handler
\* around the call, so it reaches main; handle_call_tool's try block catches it
AfterThreadFailureContinue(s) == "scrape"

AfterThreadFailure(s) == IF s = "cli" THEN "cli_main_except" ELSE "srv_except"

\* parse_hn_comments(item_id): requests.get or raise_for_status raises
ThreadFetchFails ==
    /\ pc = "await_thread"
    /\ raised' = "RequestException"
    /\ pc' = AfterThreadFailure(surface)
    /\ UNCHANGED <<surface, tool_name, arguments_ok, hn_url, key_present, item_id,
                   thread_doc, hn_data, scrape_data, article_content, result, article_exc,
                   exit_code, thread_fetches, scrape_calls, http_posts>>
    /\ UNCHANGED bvars

\* get_hn_content: story_url and the two early returns (cli.py 42-62)
CliDecide ==
    /\ pc = "decide" /\ surface = "cli"
    /\ LET story_url == hn_data[1].story.url
       IN  IF story_url = <<>>
           THEN result' = <<SkippedNoUrl(hn_data[1])>> /\ pc' = "cli_returned"
           ELSE IF StartsWith(story_url, HNPrefix)
           THEN result' = <<SkippedInternal(hn_data[1], story_url)>> /\ pc' = "cli_returned"
           ELSE result' = result /\ pc' = "scrape"
    /\ UNCHANGED <<surface, tool_name, arguments_ok, hn_url, key_present, item_id,
                   thread_doc, hn_data, scrape_data, article_content, raised, article_exc,
                   exit_code, thread_fetches, scrape_calls, http_posts>>
    /\ UNCHANGED bvars

\* handle_call_tool: article_url and the choice to fetch it (server.py 124-129, 141-142)
ServerDecide ==
    /\ pc = "decide" /\ surface = "server"
    /\ LET article_url == hn_data[1].story.url
       IN  IF article_url # <<>> /\ ~StartsWith(article_url, HNPrefix)
           THEN article_content' = article_content /\ pc' = "scrape"
           ELSE /\ article_content' = <<ArticleText("no_url_notice", "none")>>
                /\ pc' = "srv_combine"
    /\ UNCHANGED <<surface, tool_name, arguments_ok, hn_url, key_present, item_id,
                   thread_doc, hn_data, scrape_data, result, raised, article_exc,
                   exit_code, thread_fetches, scrape_calls, http_posts>>
    /\ UNCHANGED bvars

\* scrape_url without an API key: FirecrawlAPIKeyError before any request (firecrawl.py 59-66)
ScrapeNoKey ==
    /\ pc = "scrape" /\ ~key_present
    /\ scrape_calls' = scrape_calls + 1
    /\ raised' = "FirecrawlAPIKeyError"
    /\ article_exc' = "FirecrawlAPIKeyError"
    /\ pc' = "article_except"
    /\ UNCHANGED <<surface, tool_name, arguments_ok, hn_url, key_present, item_id,
                   thread_doc, hn_data, scrape_data, article_content, result, exit_code,
                   thread_fetches, http_posts>>
    /\ UNCHANGED bvars

\* scrape_url: the POST fails or its answer is not JSON (firecrawl.py 89-121)
ScrapeFails ==
    /\ pc = "scrape" /\ key_present
    /\ scrape_calls' = scrape_calls + 1
    /\ http_posts' = http_posts + 1
    /\ \E t \in Transports \ {"json"} :
          /\ raised' = ScrapeError(t)
          /\ article_exc' = ScrapeError(t)
    /\ pc' = "article_except"
    /\ UNCHANGED <<surface, tool_name, arguments_ok, hn_url, key_present, item_id,
                   thread_doc, hn_data, scrape_data, article_content, result, exit_code,
                   thread_fetches>>
    /\ UNCHANGED bvars

\* scrape_url: the POST is answered with a JSON document, which is returned (firecrawl.py 89-101)
ScrapeReturns ==
    /\ pc = "scrape" /\ key_present
    /\ scrape_calls' = scrape_calls + 1
    /\ http_posts' = http_posts + 1
    /\ \E body \in JsonBodies : scrape_data' = <<body>>
    /\ pc' = "get_markdown"
    /\ UNCHANGED <<surface, tool_name, arguments_ok, hn_url, key_present, item_id,
                   thread_doc, hn_data, article_content, result, raised, article_exc,
                   exit_code, thread_fetches>>
    /\ UNCHANGED bvars

\* url_content = get_markdown(content_data) and the final return (cli.py 72, 81-85)
CliGetMarkdown ==
    /\ pc = "get_markdown" /\ surface = "cli"
    /\ LET md == GetMarkdown(scrape_data[1])
       IN  IF md.ok
           THEN /\ result' = <<SuccessResult(hn_data[1], hn_data[1].story.url, PyValue(md.value))>>
                /\ pc' = "cli_returned"
                /\ UNCHANGED <<raised, article_exc>>
           ELSE /\ raised' = md.exc /\ article_exc' = md.exc
                /\ pc' = "article_except"
                /\ result' = result
    /\ UNCHANGED <<surface, tool_name, arguments_ok, hn_url, key_present, item_id,
                   thread_doc, hn_data, scrape_data, article_content, exit_code,
                   thread_fetches, scrape_calls, http_posts>>
    /\ UNCHANGED bvars

\* article_content = get_markdown(scrape_result) (server.py 136)
ServerGetMarkdown ==
    /\ pc = "get_markdown" /\ surface = "server"
    /\ LET md == GetMarkdown(scrape_data[1])
       IN  IF md.ok
           THEN /\ article_content' = <<ArticleText(md.value, "none")>>
                /\ pc' = "srv_combine"
                /\ UNCHANGED <<raised, article_exc>>
           ELSE /\ raised' = md.exc /\ article_exc' = md.exc
                /\ pc' = "article_except"
                /\ article_content' = article_content
    /\ UNCHANGED <<surface, tool_name, arguments_ok, hn_url, key_present, item_id,
                   thread_doc, hn_data, scrape_data, result, exit_code,
                   thread_fetches, scrape_calls, http_posts>>
    /\ UNCHANGED bvars

\* a handler that calls scrape_url a second time before giving up
CliArticleExceptRetry ==
    /\ pc = "article_except" /\ surface = "cli"
    /\ IF IsFirecrawlError(raised) /\ scrape_calls < 2
       THEN /\ pc' = "scrape"
            /\ raised' = "none"
            /\ result' = result
       ELSE IF IsFirecrawlError(raised)
       THEN /\ result' = <<FailedResult(hn_data[1], hn_data[1].story.url, raised)>>
            /\ raised' = "none"
            /\ pc' = "cli_returned"
       ELSE /\ pc' = "cli_main_except"
            /\ UNCHANGED <<result, raised>>
    /\ UNCHANGED <<surface, tool_name, arguments_ok, hn_url, key_present, item_id,
                   thread_doc, hn_data, scrape_data, article_content, article_exc,
                   exit_code, thread_fetches, scrape_calls, http_posts>>
    /\ UNCHANGED bvars

\* get_hn_content: except FirecrawlError; anything else leaves the function (cli.py 73-79)
CliArticleExcept ==
    /\ pc = "article_except" /\ surface = "cli"
    /\ IF IsFirecrawlError(raised)
       THEN /\ result' = <<FailedResult(hn_data[1], hn_data[1].story.url, raised)>>
            /\ raised' = "none"
            /\ pc' = "cli_returned"
       ELSE /\ pc' = "cli_main_except"
            /\ UNCHANGED <<result, raised>>
    /\ UNCHANGED <<surface, tool_name, arguments_ok, hn_url, key_present, item_id,
                   thread_doc, hn_data, scrape_data, article_content, article_exc,
                   exit_code, thread_fetches, scrape_calls, http_posts>>
    /\ UNCHANGED bvars

\* handle_call_tool: except FirecrawlError / except Exception around the article (server.py 137-140)
ServerArticleExcept ==
    /\ pc = "article_except" /\ surface = "server"
    /\ article_content' =
          IF IsFirecrawlError(raised) THEN <<ArticleText("error_notice", raised)>>
          ELSE <<ArticleText("unexpected_notice", raised)>>
    /\ raised' = "none"
    /\ pc' = "srv_combine"
    /\ UNCHANGED <<surface, tool_name, arguments_ok, hn_url, key_present, item_id,
                   thread_doc, hn_data, scrape_data, result, article_exc,
                   exit_code, thread_fetches, scrape_calls, http_posts>>
    /\ UNCHANGED bvars

\* handle_call_tool: the two sections are combined and returned (server.py 122, 144-160)
ServerCombine ==
    /\ pc = "srv_combine"
    /\ result' = <<SectionsText(article_content[1], FormatHnDiscussion(hn_data[1]))>>
    /\ pc' = "done"
    /\ UNCHANGED <<surface, tool_name, arguments_ok, hn_url, key_present, item_id,
                   thread_doc, hn_data, scrape_data, article_content, raised, article_exc,
                   exit_code, thread_fetches, scrape_calls, http_posts>>
    /\ UNCHANGED bvars

\* an outer handler that lets the exception go on to the caller
ServerCatchAllReraise ==
    /\ pc = "srv_except"
    /\ pc' = "done"
    /\ UNCHANGED <<surface, tool_name, arguments_ok, hn_url, key_present, item_id,
                   thread_doc, hn_data, scrape_data, article_content, result, raised,
                   article_exc, exit_code, thread_fetches, scrape_calls, http_posts>>
    /\ UNCHANGED bvars

\* handle_call_tool: the outer except Exception (server.py 162-168)
ServerCatchAll ==
    /\ pc = "srv_except"
    /\ result' = <<ErrorText(raised)>>
    /\ raised' = "none"
    /\ pc' = "done"
    /\ UNCHANGED <<surface, tool_name, arguments_ok, hn_url, key_present, item_id,
                   thread_doc, hn_data, scrape_data, article_content, article_exc,
                   exit_code, thread_fetches, scrape_calls, http_posts>>
    /\ UNCHANGED bvars

\* the exit code main ends with after get_hn_content returned: sys.exit(2) on
\* a result with an error, otherwise the end of main
ExitCode(res) == IF res.error # <<>> THEN 2 ELSE 0

\* main: print_result, then the exit code (cli.py 180-185)
CliMainReturn ==
    /\ pc = "cli_returned"
    /\ exit_code' = ExitCode(result[1])
    /\ pc' = "done"
    /\ UNCHANGED <<surface, tool_name, arguments_ok, hn_url, key_present, item_id,
                   thread_doc, hn_data, scrape_data, article_content, result, raised,
                   article_exc, thread_fetches, scrape_calls, http_posts>>
    /\ UNCHANGED bvars

\* main: except ValueError / FirecrawlError / Exception, each sys.exit(1) (cli.py 187-197)
CliMainExcept ==
    /\ pc = "cli_main_except"
    /\ exit_code' = 1
    /\ pc' = "done"
    /\ UNCHANGED <<surface, tool_name, arguments_ok, hn_url, key_present, item_id,
                   thread_doc, hn_data, scrape_data, article_content, result, raised,
                   article_exc, thread_fetches, scrape_calls, http_posts>>
    /\ UNCHANGED bvars

NextReq ==
    \/ CliExtractId \/ ServerValidate \/ ServerExtractId
    \/ ThreadFetchIssue \/ ThreadFetchOk \/ ThreadFetchFails
    \/ CliDecide \/ ServerDecide
    \/ ScrapeNoKey \/ ScrapeFails \/ ScrapeReturns
    \/ CliGetMarkdown \/ ServerGetMarkdown
    \/ CliArticleExcept \/ ServerArticleExcept
    \/ ServerCombine \/ ServerCatchAll
    \/ CliMainReturn \/ CliMainExcept

SpecReq == InitReq /\ [][NextReq]_vars

\* =====================================================================
\* Properties of a request (checked under SpecReq)
\* =====================================================================
ThreadFetched == hn_data # <<>>

ThreadFetchFailed == thread_fetches > 0 /\ hn_data = <<>> /\ pc # "await_thread"

\* the article call (scrape_url, get_markdown) was made and ended in an exception
ArticleCallFailed == article_exc # "none"

\* the article call was made and delivered the markdown
ArticleObtained ==
    /\ scrape_data # <<>>
    /\ GetMarkdown(scrape_data[1]).ok
    /\ PyValue(GetMarkdown(scrape_data[1]).value) # <<>>

\* an exception has left get_hn_content (cli) or handle_call_tool (server)
Propagated ==
    \/ surface = "cli" /\ pc \in {"cli_main_except", "done"} /\ raised # "none"
    \/ surface = "server" /\ pc = "done" /\ raised # "none"

\* the returned value carries the discussion of the fetched thread
CarriesDiscussion ==
    /\ result # <<>>
    /\ surface = "cli" => result[1].hn_comments = hn_data[1]
    /\ surface = "server" =>
          /\ result[1].form = "sections"
          /\ result[1].hn_discussion = FormatHnDiscussion(hn_data[1])

\* C6: once the thread fetch succeeded, a failure of the article call never
\* leaves get_hn_content or handle_call_tool as an exception, and the finished
\* request has a result with an in-band diagnostic that carries the discussion.
C6_ArticleFailureDowngraded ==
    (ThreadFetched /\ ArticleCallFailed) =>
        /\ ~Propagated
        /\ pc \in {"cli_returned", "done"} =>
              /\ CarriesDiscussion
              /\ surface = "cli" => result[1].error # <<>>
              /\ surface = "server" =>
                    result[1].article_content.kind \in {"error_notice", "unexpected_notice"}

\* the article outcome of a returned result is Skipped
Skipped ==
    /\ result # <<>>
    /\ surface = "cli" =>
          result[1].error # <<>> /\ result[1].error[1].reason \in {"no_url", "hn_internal"}
    /\ surface = "server" =>
          result[1].form = "sections" /\ result[1].article_content.kind = "no_url_notice"

\* C7: for a story URL that is empty or points into the forum's own domain
\* scrape_url is never called and the outcome is Skipped; scrape_url is called
\* only for a non-empty URL outside the forum's domain.
C7_ForumUrlNeverScraped ==
    thread_doc # <<>> =>
        LET url == thread_doc[1].url
        IN  (url = <<>> \/ PointsIntoForum(url)) =>
                /\ scrape_calls = 0
                /\ pc \in {"cli_returned", "done"} => Skipped

\* the discussion part of a returned value is the one parsed from the thread
\* document, whatever the article outcome
DiscussionFromThread ==
    /\ surface = "cli" /\ result # <<>> =>
          result[1].hn_comments = ParseHnComments(thread_doc[1])
    /\ surface = "server" /\ result # <<>> /\ result[1].form = "sections" =>
          result[1].hn_discussion = FormatHnDiscussion(ParseHnComments(thread_doc[1]))

\* the returned value shows at least one top-level comment
ShowsComments ==
    /\ surface = "cli" => result[1].hn_comments.comments # <<>>
    /\ surface = "server" =>
          \E i \in DOMAIN result[1].hn_discussion :
              result[1].hn_discussion[i].kind = "COMMENT #"

ReturnedDiscussion ==
    /\ result # <<>>
    /\ surface = "server" => result[1].form = "sections"

\* C8 (as stated): the discussion part of the result is that of the thread
\* document whatever the article outcome, and the forest is non-empty whenever
\* the thread had comments.
C8_DiscussionIndependentNonEmpty ==
    /\ DiscussionFromThread
    /\ (ReturnedDiscussion /\ thread_doc[1].rows # <<>>) => ShowsComments

\* C8 (amended): the discussion part of the result is that of the thread
\* document whatever the article outcome, and the forest is non-empty whenever
\* the thread had at least one comment of depth 0.
C8_DiscussionIndependent ==
    /\ DiscussionFromThread
    /\ (ReturnedDiscussion
        /\ \E i \in DOMAIN thread_doc[1].rows : IndentLevel(thread_doc[1].rows[i]) = 0)
       => ShowsComments

C8_Witness ==
    /\ surface = "cli"
    /\ result # <<>>
    /\ ArticleCallFailed
    /\ result[1].error # <<>>
    /\ result[1].error[1].reason = "failed"
    /\ Len(thread_doc[1].rows) = 2
    /\ result[1].hn_comments.comments # <<>>
    /\ result[1].hn_comments = ParseHnComments(thread_doc[1])

\* the item id get_hn_content or handle_call_tool extracts from hn_url
ExtractedId == IF surface = "cli" THEN CliItemId(hn_url) ELSE ExtractItemId(hn_url)

\* C9: cli.main ends with 0 exactly when the thread was fetched and the article
\* content obtained, with 2 exactly when the thread was fetched and the article
\* content is unavailable, with 1 exactly when the identifier is invalid or the
\* thread fetch failed.
C9_ExitCodes ==
    (surface = "cli" /\ pc = "done") =>
        /\ exit_code = 0 <=> (ThreadFetched /\ ArticleObtained)
        /\ exit_code = 2 <=> (ThreadFetched /\ ~ArticleObtained)
        /\ exit_code = 1 <=> (~IsDigit(ExtractedId) \/ ThreadFetchFailed)

\* C10: a request whose extracted item id is not a non-empty string of digits
\* never starts the thread fetch or the article fetch, and ends as a failure.
C10_InvalidIdNoFetch ==
    (pc \notin {"start", "srv_extract"} /\ tool_name = "get_hn_content" /\ arguments_ok
     /\ ~IsDigit(ExtractedId)) =>
        /\ thread_fetches = 0
        /\ scrape_calls = 0
        /\ pc = "done" => raised = "ValueError" /\ result = <<>>

\* C11: when the thread fetch fails the request ends as a failure reported to
\* the caller (exit code 1 on the CLI, the error text on the server) without
\* any discussion result, and scrape_url is never called in it; scrape_url is
\* only ever called after the thread fetch has succeeded.
C11_ThreadFailureIsFatal ==
    /\ ThreadFetchFailed =>
          /\ scrape_calls = 0 /\ http_posts = 0
          /\ pc = "done" =>
                /\ surface = "cli" => exit_code = 1 /\ result = <<>>
                /\ surface = "server" => result # <<>> /\ result[1].form = "error"
    /\ scrape_calls > 0 => ThreadFetched

C11_Witness ==
    /\ pc = "done"
    /\ ThreadFetchFailed
    /\ IsDigit(ExtractedId)
    /\ scrape_calls = 0

\* =====================================================================
\* SpecReqLive: a request under the progress the code guarantees
\* =====================================================================
\* the steps that are bound to happen: the interpreter runs the local code, and
\* requests.post(..., timeout=timeout) answers or raises Timeout. The answer to
\* requests.get(url), which carries no timeout, is not among them.
ReqProgress ==
    \/ CliExtractId \/ ServerValidate \/ ServerExtractId
    \/ ThreadFetchIssue
    \/ CliDecide \/ ServerDecide
    \/ ScrapeNoKey \/ ScrapeFails \/ ScrapeReturns
    \/ CliGetMarkdown \/ ServerGetMarkdown
    \/ CliArticleExcept \/ ServerArticleExcept
    \/ ServerCombine \/ ServerCatchAll
    \/ CliMainReturn \/ CliMainExcept

SpecReqLive == InitReq /\ [][NextReq]_vars /\ WF_vars(ReqProgress)

\* C12: every request terminates: each fetch has a bounded timeout, so the
\* request eventually ends in a result or an error.
C12_RequestTerminates == <>(pc = "done")

\* C13: within one request scrape_url is called at most once and issues at
\* most one POST; after a failed call the request goes on without another.
C13_SingleArticleAttempt ==
    /\ scrape_calls <= 1
    /\ http_posts <= scrape_calls
    /\ ArticleCallFailed => scrape_calls = 1 /\ pc # "scrape"

C13_Witness ==
    /\ pc = "done"
    /\ surface = "cli"
    /\ ArticleCallFailed
    /\ scrape_calls = 1
    /\ http_posts = 1
    /\ result # <<>>

\* C14: handle_call_tool raises (ValueError) exactly when the tool name is not
\* get_hn_content or the hn_url argument is absent, and then no fetch has been
\* issued; otherwise it returns exactly one text item and does not raise,
\* whatever the outcomes of the two fetches.
C14_ServerRaisesOnlyOnBadCall ==
    (surface = "server" /\ pc = "done") =>
        /\ raised # "none" <=> (tool_name # "get_hn_content" \/ ~arguments_ok)
        /\ raised # "none" =>
              /\ raised = "ValueError"
              /\ thread_fetches = 0 /\ scrape_calls = 0
              /\ result = <<>>
        /\ raised = "none" => Len(result) = 1

C14_Witness ==
    /\ surface = "server" /\ pc = "done"
    /\ raised = "none"
    /\ ThreadFetchFailed
    /\ Len(result) = 1
    /\ result[1].form = "error"

\* C15: every result get_hn_content returns has either the article content
\* (url_content set) and no error, or no url_content and one error; never both
\* and never neither.
C15_ExactlyOneArticleOutcome ==
    (surface = "cli" /\ result # <<>>) =>
        \/ result[1].url_content # <<>> /\ result[1].error = <<>>
        \/ result[1].url_content = <<>> /\ Len(result[1].error) = 1

\* =====================================================================
\* SpecId: extract_item_id applied to one argument
\* =====================================================================
InitId ==
    /\ BuildIdle
    /\ surface = "none" /\ tool_name = "none" /\ arguments_ok = FALSE
    /\ hn_url \in SeqsUpTo(UrlTokens, MaxUrlLen)
    /\ key_present = FALSE /\ pc = "id_start"
    /\ item_id = <<>> /\ thread_doc = <<>> /\ hn_data = <<>> /\ scrape_data = <<>>
    /\ article_content = <<>> /\ result = <<>>
    /\ raised = "none" /\ article_exc = "none" /\ exit_code = -1
    /\ thread_fetches = 0 /\ scrape_calls = 0 /\ http_posts = 0

\* item_id = extract_item_id(hn_url)
IdExtract ==
    /\ pc = "id_start"
    /\ item_id' = ExtractItemId(hn_url)
    /\ pc' = "id_done"
    /\ UNCHANGED <<surface, tool_name, arguments_ok, hn_url, key_present, thread_doc,
                   hn_data, scrape_data, article_content, result, raised, article_exc,
                   exit_code, thread_fetches, scrape_calls, http_posts>>
    /\ UNCHANGED bvars

NextId == IdExtract

SpecId == InitId /\ [][NextId]_vars

\* the text that follows the first occurrence of t in s
AfterFirst(s, t) ==
    LET k == CHOOSE i \in DOMAIN s : s[i] = t /\ \A j \in 1..(i - 1) : s[j] # t
    IN  [i \in 1..(Len(s) - k) |-> s[k + i]]

\* the text of s up to, not including, its first chunk in the set T
UpToFirstOf(s, T) ==
    LET hits == {i \in DOMAIN s : s[i] \in T}
    IN  IF hits = {} THEN s
        ELSE [i \in 1..((CHOOSE h \in hits : \A g \in hits : h <= g) - 1) |-> s[i]]

\* C16 (as stated): for an input containing 'item?id=' extract_item_id returns
\* the text that follows the first 'item?id=' up to the next '&', and every
\* other input unchanged.
C16_IdUpToAmpersand ==
    pc = "id_done" =>
        item_id = IF \E i \in DOMAIN hn_url : hn_url[i] = Marker
                  THEN UpToFirstOf(AfterFirst(hn_url, Marker), {"&"})
                  ELSE hn_url

\* C16 (amended): for an input containing 'item?id=' extract_item_id returns
\* the text that follows the first 'item?id=' up to the next '&' or the next
\* 'item?id=', whichever comes first, and every other input unchanged.
C16_IdUpToAmpersandOrMarker ==
    pc = "id_done" =>
        item_id = IF \E i \in DOMAIN hn_url : hn_url[i] = Marker
                  THEN UpToFirstOf(AfterFirst(hn_url, Marker), {"&", Marker})
                  ELSE hn_url

C16_Witness ==
    /\ pc = "id_done"
    /\ hn_url = <<Marker, "7", "&">>
    /\ item_id = <<"7">>

\* =====================================================================
\* Properties of the renderer on built forests (checked under Spec)
\* =====================================================================
\* the compact rendering of the forest built so far
Rendered == FormatTopLevel(nodes, all_comments, 1)

HeaderLines == {i \in DOMAIN Rendered : Rendered[i].kind \in {"COMMENT", "REPLY"}}

\* C18: in the compact rendering of a built forest, a comment's header line
\* says REPLY if the comment's indent_level field is > 0 and COMMENT if it is 0.
C18_LabelMatchesDepthField ==
    \A i \in HeaderLines :
        Rendered[i].kind = (IF nodes[Rendered[i].id].indent_level > 0
                            THEN "REPLY" ELSE "COMMENT")

C18_Witness ==
    /\ bpc = "done"
    /\ \E i, j \in HeaderLines :
          /\ Rendered[i].kind = "COMMENT"
          /\ Rendered[j].kind = "REPLY"
          /\ Rendered[j].indent = 1
          /\ nodes[Rendered[j].id].indent_level = 3

\* the records the loop has taken so far
Processed == 1..(pos - 1)

\* a depth-0 record is among the first i records
RootUpTo(i) == \E j \in 1..i : SourceDepth(j) = 0

\* C19: once the first depth-0 record has been processed the ancestor stack is
\* never empty again, and a processed record is missing from the forest exactly
\* when no depth-0 record stands at or before it in the input (so every record
\* before the first root is dropped and no depth jump after a root drops one).
C19_DroppedIffBeforeFirstRoot ==
    /\ RootUpTo(pos - 1) => comment_stack # <<>>
    /\ \A i \in Processed : i \notin Forest <=> ~RootUpTo(i)

C19_Witness ==
    /\ bpc = "done"
    /\ Len(rows) = 3
    /\ SourceDepth(1) = 2 /\ 1 \notin Forest
    /\ SourceDepth(2) = 0
    /\ SourceDepth(3) = 3 /\ 3 \in Forest

\* pre-order traversal of the trees of a list of comments
RECURSIVE Preorder(_, _)
Preorder(nds, list) ==
    IF list = <<>> THEN <<>>
    ELSE <<Head(list)>> \o Preorder(nds, nds[Head(list)].replies) \o Preorder(nds, Tail(list))

\* the places a comment stands at: <<owner, index>>, owner 0 for the top-level
\* list and p for the replies of comment p
Places(id) ==
    {<<0, k>> : k \in {k \in DOMAIN all_comments : all_comments[k] = id}}
    \cup UNION {{<<p, k>> : k \in {k \in DOMAIN nodes[p].replies : nodes[p].replies[k] = id}}
                : p \in DOMAIN nodes}

\* C20: every record of the forest stands at exactly one place of it, and the
\* pre-order traversal of the forest lists the records that were not dropped
\* exactly once each, in input order.
C20_PreorderIsInputOrder ==
    LET po == Preorder(nodes, all_comments)
    IN  /\ \A id \in Forest : Cardinality(Places(id)) = 1
        /\ \A id \in Processed \ Forest : Places(id) = {}
        /\ Range(po) = Forest
        /\ \A p, q \in DOMAIN po : p < q => po[p] < po[q]

C20_Witness ==
    /\ bpc = "done"
    /\ Len(rows) = 4
    /\ 1 \notin Forest
    /\ Preorder(nodes, all_comments) = <<2, 3, 4>>
    /\ Len(all_comments) = 1

====
